---- MODULE Spec2Model ----
(***************************************************************************)
(* Receipt processing pipeline: the OCR stage                              *)
(* (lambda/receipt_textract_processor.py) and the model stage              *)
(* (lambda/receipt_bedrock_processor.py).                                  *)
(*                                                                         *)
(* A Python string is a sequence of atoms.  An atom is a TLA+ string that  *)
(* stands for one character ("$", "1", ".", " ") or for an indivisible     *)
(* run of word characters ("Acme", "TOTAL", "foo").  The separator         *)
(* "===JSON===" , the object-key prefixes and the file suffixes are atoms. *)
(* A Python/JSON value is a tagged record [t, v].                          *)
(***************************************************************************)
EXTENDS Integers, Sequences, FiniteSets, Bags, TLC

VARIABLES store, queue, inv, calls, run, snap,
          nfields, ntotal, nrec,
          body, ptext, pres,
          response, tsummary

vars == <<store, queue, inv, calls, run, snap,
          nfields, ntotal, nrec, body, ptext, pres, response, tsummary>>

-----------------------------------------------------------------------------
(* Python / JSON values *)

JNull == [t |-> "null", v |-> 0]
JBool(b) == [t |-> "bool", v |-> b]
JNum(m, e) == [t |-> "num", v |-> <<m, e>>]
JStr(s) == [t |-> "str", v |-> s]
JList(s) == [t |-> "list", v |-> s]
JObj(s) == [t |-> "obj", v |-> s]

EmptyDict == JObj(<<>>)
EmptyStr == JStr(<<>>)

IsDict(x) == x.t = "obj"
IsList(x) == x.t = "list"
IsStr(x) == x.t = "str"

Truthy(x) ==
  CASE x.t = "null" -> FALSE
    [] x.t = "bool" -> x.v
    [] x.t = "num" -> x.v[1] # 0
    [] OTHER -> Len(x.v) > 0

HasKey(d, k) == \E i \in 1..Len(d.v) : d.v[i][1] = k

Get(d, k, default) ==
  IF HasKey(d, k)
  THEN d.v[CHOOSE i \in 1..Len(d.v) : d.v[i][1] = k][2]
  ELSE default

SetItem(d, k, x) ==
  IF HasKey(d, k)
  THEN JObj([i \in 1..Len(d.v) |-> IF d.v[i][1] = k THEN <<k, x>> ELSE d.v[i]])
  ELSE JObj(Append(d.v, <<k, x>>))

Or(a, b) == IF Truthy(a) THEN a ELSE b

-----------------------------------------------------------------------------
(* Strings *)

Digits == {"0", "1", "2", "3", "4", "5", "6", "7", "8", "9"}
Whitespace == {" ", "\n"}
DigitVal(c) == CHOOSE n \in 0..9 : ToString(n) = c

IsDigit(c) == c \in Digits
IsSpace(c) == c \in Whitespace

SetMin(S) == CHOOSE x \in S : \A y \in S : x <= y
SetMax(S) == CHOOSE x \in S : \A y \in S : x >= y

Strip(s) ==
  LET keep == {i \in 1..Len(s) : ~IsSpace(s[i])}
  IN IF keep = {} THEN <<>> ELSE SubSeq(s, SetMin(keep), SetMax(keep))

Remove(s, chars) == SelectSeq(s, LAMBDA c : c \notin chars)

Contains(s, c) == \E i \in 1..Len(s) : s[i] = c

ContainsSeq(s, w) ==
  \E i \in 1..(Len(s) - Len(w) + 1) : SubSeq(s, i, i + Len(w) - 1) = w

StartsWith(s, p) == Len(s) >= Len(p) /\ SubSeq(s, 1, Len(p)) = p

EndsWith(s, p) == Len(s) >= Len(p) /\ SubSeq(s, Len(s) - Len(p) + 1, Len(s)) = p

RECURSIVE Split(_, _)
Split(s, sep) ==
  IF Contains(s, sep)
  THEN LET i == SetMin({j \in 1..Len(s) : s[j] = sep})
       IN <<SubSeq(s, 1, i - 1)>> \o Split(SubSeq(s, i + 1, Len(s)), sep)
  ELSE <<s>>

RECURSIVE Concat(_)
Concat(ss) == IF ss = <<>> THEN <<>> ELSE Head(ss) \o Concat(Tail(ss))

RECURSIVE Join(_, _)
Join(ss, sep) ==
  IF Len(ss) = 0 THEN <<>>
  ELSE IF Len(ss) = 1 THEN ss[1]
  ELSE ss[1] \o sep \o Join(Tail(ss), sep)

RECURSIVE SeqsUpTo(_, _)
SeqsUpTo(S, n) ==
  IF n = 0 THEN {<<>>}
  ELSE LET shorter == SeqsUpTo(S, n - 1)
       IN shorter \cup {Append(s, x) : s \in {q \in shorter : Len(q) = n - 1}, x \in S}

-----------------------------------------------------------------------------
(* receipt_bedrock_processor.py: parse_amount, extract_currency *)

RECURSIVE NatStr(_)
NatStr(n) == IF n < 10 THEN <<ToString(n)>> ELSE NatStr(n \div 10) \o <<ToString(n % 10)>>

RECURSIVE ZeroPad(_, _)
ZeroPad(s, n) == IF Len(s) >= n THEN s ELSE ZeroPad(<<"0">> \o s, n)

(* str(x) for the values that reach parse_amount *)
PyStr(x) ==
  CASE x.t = "str" -> x.v
    [] x.t = "bool" -> IF x.v THEN <<"True">> ELSE <<"False">>
    [] x.t = "num" ->
         LET m == x.v[1]
             e == x.v[2]
             d == ZeroPad(NatStr(m), e + 1)
         IN IF e = 0 THEN d
            ELSE SubSeq(d, 1, Len(d) - e) \o <<".">> \o SubSeq(d, Len(d) - e + 1, Len(d))

RECURSIVE DigitsVal(_)
DigitsVal(s) == IF s = <<>> THEN 0 ELSE 10 * DigitsVal(SubSeq(s, 1, Len(s) - 1)) + DigitVal(s[Len(s)])

RECURSIVE NormNum(_, _)
NormNum(m, e) == IF e > 0 /\ m % 10 = 0 THEN NormNum(m \div 10, e - 1) ELSE JNum(m, e)

\* float(text) for text matching digits with an optional "." and digits
Float(intpart, frac) == NormNum(DigitsVal(intpart \o frac), Len(frac))

(* last index of the run of digits that starts at i *)
DigitRunEnd(s, i) == SetMax({j \in i..Len(s) : \A k \in i..j : IsDigit(s[k])})

(* the atoms of the rupee and euro signs *)
Rupee == "(rupee)"
Euro == "(euro)"
CurrencySymbols == {Rupee, "$", Euro}

parse_amount(x) ==
  IF ~Truthy(x) THEN JNull
  ELSE LET s == Remove(Strip(Remove(PyStr(x), {","})), CurrencySymbols)
           starts == {i \in 1..Len(s) : IsDigit(s[i])}
       IN IF starts = {} THEN JNull
          ELSE LET i == SetMin(starts)
                   j == DigitRunEnd(s, i)
                   hasFrac == j + 2 <= Len(s) /\ s[j + 1] = "." /\ IsDigit(s[j + 2])
               IN IF hasFrac
                  THEN Float(SubSeq(s, i, j), SubSeq(s, j + 2, DigitRunEnd(s, j + 2)))
                  ELSE Float(SubSeq(s, i, j), <<>>)

extract_currency(x) ==
  IF ~Truthy(x) THEN EmptyStr
  ELSE IF Contains(x.v, Rupee) \/ Contains(x.v, "INR") \/ Contains(x.v, "Rs") THEN JStr(<<"INR">>)
  ELSE IF Contains(x.v, "$") THEN JStr(<<"USD">>)
  ELSE IF Contains(x.v, Euro) THEN JStr(<<"EUR">>)
  ELSE EmptyStr

(* outcome of a piece of code: a value, or an exception that leaves it *)
Ok(x) == [raised |-> FALSE, val |-> x]
Raise == [raised |-> TRUE, val |-> JNull]

TotalFirst(summary_json, summary_data) ==
  IF ~IsDict(summary_json) THEN Raise
  ELSE LET total == Get(summary_data, "Total", JNull)
           withAmount == SetItem(summary_json, "amount",
                           parse_amount(Or(total, Get(summary_json, "amount", JNull))))
       IN Ok(SetItem(withAmount, "currency",
                Or(Get(withAmount, "currency", JNull),
                   extract_currency(Get(summary_data, "Total", EmptyStr)))))

(* lambda_handler, "Normalize amount and currency" *)
Normalize(summary_json, summary_data) ==
  IF ~IsDict(summary_json) THEN Raise
  ELSE LET withAmount == SetItem(summary_json, "amount",
                           parse_amount(Or(Get(summary_json, "amount", JNull),
                                           Get(summary_data, "Total", JNull))))
       IN Ok(SetItem(withAmount, "currency",
                Or(Get(withAmount, "currency", JNull),
                   extract_currency(Get(summary_data, "Total", EmptyStr)))))


-----------------------------------------------------------------------------
(* Inputs of the normalisation: the parsed fields and the OCR summary *)

MaxTotalLen == 3

TotalAtoms == {Rupee, "$", Euro, "INR", "Rs", ",", ".", "1", " "}

AmountValues ==
  {JNull, JNum(0, 0), JNum(5, 0), JNum(125, 1), EmptyStr,
   JStr(<<"7", ".", "5", "0">>), JStr(<<"n", "/", "a">>)}

CurrencyValues == {JNull, EmptyStr, JStr(<<"GBP">>)}

Optional(k, values) == {<<>>} \cup {<<<<k, x>>>> : x \in values}

FieldsSet ==
  {JObj(<<<<"vendor", JStr(<<"Cafe">>)>>>> \o a \o c \o <<<<"category", JStr(<<"Dining">>)>>>>) :
     a \in Optional("amount", AmountValues), c \in Optional("currency", CurrencyValues)}

SummarySet ==
  {JObj(<<<<"Vendor", JStr(<<"Cafe">>)>>>> \o tot) :
     tot \in Optional("Total", {JNull} \cup {JStr(s) : s \in SeqsUpTo(TotalAtoms, MaxTotalLen)})}

NotRun == [done |-> FALSE, raised |-> FALSE, val |-> JNull]
Done(r) == [done |-> TRUE, raised |-> r.raised, val |-> r.val]

hvars == <<store, queue, inv, calls, run, snap>>
nvars == <<nfields, ntotal, nrec>>
pvars == <<body, ptext, pres>>
tvars == <<response, tsummary>>

NormIdle == nfields = JNull /\ ntotal = JNull /\ nrec = NotRun
NotParsed == [done |-> FALSE, summary_line |-> <<>>, fields |-> JNull]
ParseIdle == body = <<>> /\ ptext = NotRun /\ pres = NotParsed
ExtractIdle == response = JNull /\ tsummary = NotRun
HandlersIdle ==
  /\ store = <<>>
  /\ queue = EmptyBag
  /\ inv = <<>>
  /\ calls = [textract |-> 0, bedrock |-> 0]
  /\ run = 0
  /\ snap = <<>>

NormalizeStep ==
  /\ ~nrec.done
  /\ nrec' = Done(Normalize(nfields, ntotal))
  /\ UNCHANGED <<nfields, ntotal, hvars, pvars, tvars>>

InitNorm ==
  /\ nfields \in FieldsSet
  /\ ntotal \in SummarySet
  /\ nrec = NotRun
  /\ HandlersIdle /\ ParseIdle /\ ExtractIdle

NextNorm == NormalizeStep

SpecNorm == InitNorm /\ [][NextNorm]_vars


-----------------------------------------------------------------------------
(* receipt_textract_processor.py: parse_textract_expense *)

LowerAtom(a) ==
  CASE a = "VENDOR" -> "vendor"
    [] a = "MERCHANT" -> "merchant"
    [] a = "NAME" -> "name"
    [] a = "TOTAL" -> "total"
    [] a = "SUB" -> "sub"
    [] a = "AMOUNT" -> "amount"
    [] a = "PAID" -> "paid"
    [] a = "DATE" -> "date"
    [] a = "INVOICE" -> "invoice"
    [] a = ".JPG" -> ".jpg"
    [] a = ".PDF" -> ".pdf"
    [] a = ".SUMMARY.JSON" -> ".summary.json"
    [] OTHER -> a

Lower(s) == [i \in 1..Len(s) |-> LowerAtom(s[i])]

(* x.get(k, {}).get("Text") or "" *)
TextOf(x, k) == Or(Get(Get(x, k, EmptyDict), "Text", JNull), EmptyStr).v

(* json.dumps(x): ensure_ascii escapes, ", " and ": " separators *)
EscapeAtom(a) ==
  CASE a = Rupee -> <<"\\", "u20b9">>
    [] a = Euro -> <<"\\", "u20ac">>
    [] a = "\n" -> <<"\\", "n">>
    [] a = "\"" -> <<"\\", "\"">>
    [] OTHER -> <<a>>

Escape(s) == Concat([i \in 1..Len(s) |-> EscapeAtom(s[i])])

RECURSIVE JsonDumps(_)
JsonDumps(x) ==
  CASE x.t = "null" -> <<"null">>
    [] x.t = "bool" -> IF x.v THEN <<"true">> ELSE <<"false">>
    [] x.t = "num" -> PyStr(x)
    [] x.t = "str" -> <<"\"">> \o Escape(x.v) \o <<"\"">>
    [] x.t = "list" ->
         <<"[">> \o Join([i \in 1..Len(x.v) |-> JsonDumps(x.v[i])], <<",", " ">>) \o <<"]">>
    [] x.t = "obj" ->
         <<"{">> \o Join([i \in 1..Len(x.v) |->
                           <<"\"", x.v[i][1], "\"", ":", " ">> \o JsonDumps(x.v[i][2])],
                         <<",", " ">>) \o <<"}">>

NonWordAtoms ==
  {" ", "\n", "/", "-", ".", ",", "$", "\"", ":", "{", "}", "[", "]", "|", "\\", Rupee, Euro,
   "===JSON==="}
IsWordChar(a) == a \notin NonWordAtoms

NoMatch == [found |-> FALSE, text |-> <<>>]
Match(s) == [found |-> TRUE, text |-> s]

\* re.search of a currency sign, an optional space, one to three digits, any run of
\* characters of the class [,\d{3}] and an optional "." with two digits
MoneyClass == Digits \cup {",", "{", "}"}
MoneyDigitsStart(s, i) ==
  IF i + 1 <= Len(s) /\ IsDigit(s[i + 1]) THEN i + 1
  ELSE IF i + 2 <= Len(s) /\ IsSpace(s[i + 1]) /\ IsDigit(s[i + 2]) THEN i + 2
  ELSE 0
SearchMoney(s) ==
  LET starts == {i \in 1..Len(s) : s[i] \in CurrencySymbols /\ MoneyDigitsStart(s, i) > 0}
  IN IF starts = {} THEN NoMatch
     ELSE LET i == SetMin(starts)
              j == MoneyDigitsStart(s, i)
              e == SetMax({n \in j..Len(s) : \A k \in j..n : s[k] \in MoneyClass})
              cents == e + 3 <= Len(s) /\ s[e + 1] = "." /\ IsDigit(s[e + 2]) /\ IsDigit(s[e + 3])
          IN Match(SubSeq(s, i, IF cents THEN e + 3 ELSE e))

\* re.search of \b d{1,2} sep d{1,2} sep d{2,4} \b with sep one of "/", "-", whitespace;
\* leftmost match, each digit group as long as possible
DateSeps == {"/", "-"} \cup Whitespace
AllDigits(s, a, b) == a >= 1 /\ b <= Len(s) /\ \A k \in a..b : IsDigit(s[k])
Boundary(s, i) ==
  LET before == i > 1 /\ IsWordChar(s[i - 1])
      after == i <= Len(s) /\ IsWordChar(s[i])
  IN before # after
DateAt(s, i, a, b, c) ==
  /\ Boundary(s, i)
  /\ AllDigits(s, i, i + a - 1)
  /\ i + a <= Len(s) /\ s[i + a] \in DateSeps
  /\ AllDigits(s, i + a + 1, i + a + b)
  /\ i + a + b + 1 <= Len(s) /\ s[i + a + b + 1] \in DateSeps
  /\ AllDigits(s, i + a + b + 2, i + a + b + 1 + c)
  /\ Boundary(s, i + a + b + 2 + c)
SearchDate(s) ==
  LET cands == {m \in (1..Len(s)) \X (1..2) \X (1..2) \X (2..4) : DateAt(s, m[1], m[2], m[3], m[4])}
  IN IF cands = {} THEN NoMatch
     ELSE LET i == SetMin({m[1] : m \in cands})
              a == SetMax({m[2] : m \in {n \in cands : n[1] = i}})
              b == SetMax({m[3] : m \in {n \in cands : n[1] = i /\ n[2] = a}})
              c == SetMax({m[4] : m \in {n \in cands : n[1] = i /\ n[2] = a /\ n[3] = b}})
          IN Match(SubSeq(s, i, i + a + b + 1 + c))

FirstFieldWins(out, field) ==
  LET t == Lower(Strip(TextOf(field, "Type")))
      value == Strip(TextOf(field, "ValueDetection"))
      v == IF value = <<>> THEN Strip(TextOf(field, "LabelDetection")) ELSE value
      keep(k) == IF Get(out, k, JNull) = JNull THEN SetItem(out, k, JStr(v)) ELSE out
  IN IF Contains(t, "vendor") \/ Contains(t, "merchant")
     THEN keep("Vendor")
     ELSE IF Contains(t, "total") \/ t = <<"amount">>
     THEN keep("Total")
     ELSE IF Contains(t, "date")
     THEN keep("Date")
     ELSE out

(* one iteration of "for field in doc.get('SummaryFields', [])" *)
SummaryFieldStep(out, field) ==
  LET t == Lower(Strip(TextOf(field, "Type")))
      value == Strip(TextOf(field, "ValueDetection"))
      v == IF value = <<>> THEN Strip(TextOf(field, "LabelDetection")) ELSE value
  IN IF Contains(t, "vendor") \/ Contains(t, "merchant")
          \/ ContainsSeq(t, <<"merchant", "_", "name">>)
     THEN SetItem(out, "Vendor", JStr(v))
     ELSE IF Contains(t, "total") \/ t = <<"amount">>
     THEN SetItem(out, "Total", JStr(v))
     ELSE IF Contains(t, "date")
     THEN SetItem(out, "Date", JStr(v))
     ELSE out

RECURSIVE SummaryFieldsLoop(_, _)
SummaryFieldsLoop(out, fields) ==
  IF fields = <<>> THEN out
  ELSE SummaryFieldsLoop(SummaryFieldStep(out, Head(fields)), Tail(fields))

(* one "for kv in line.get('LineItemExpenseFields', [])" iteration: the part it appends *)
LinePart(kv) ==
  LET name == Strip(TextOf(kv, "Type"))
      val == Strip(TextOf(kv, "ValueDetection"))
  IN IF name # <<>> /\ val # <<>> THEN <<name \o <<":", " ">> \o val>>
     ELSE IF val # <<>> THEN <<val>>
     ELSE <<>>

LineParts(line) ==
  LET kvs == Get(line, "LineItemExpenseFields", JList(<<>>)).v
  IN Concat([i \in 1..Len(kvs) |-> LinePart(kvs[i])])

LineItems(grp) ==
  LET lines == Get(grp, "LineItems", JList(<<>>)).v
      item(i) == LET parts == LineParts(lines[i])
                 IN IF parts = <<>> THEN <<>> ELSE <<JStr(Join(parts, <<" ", "|", " ">>))>>
  IN Concat([i \in 1..Len(lines) |-> item(i)])

GroupItems(doc) ==
  LET groups == Get(doc, "LineItemGroups", JList(<<>>)).v
  IN Concat([i \in 1..Len(groups) |-> LineItems(groups[i])])

EmptyOut ==
  JObj(<<<<"Vendor", JNull>>, <<"Total", JNull>>, <<"Date", JNull>>, <<"Items", JList(<<>>)>>>>)

(* the primary path: docs[0] only *)
PrimaryPath(resp) ==
  LET docs == Get(resp, "ExpenseDocuments", JList(<<>>))
  IN IF ~Truthy(docs) THEN EmptyOut
     ELSE LET doc == docs.v[1]
              out == SummaryFieldsLoop(EmptyOut, Get(doc, "SummaryFields", JList(<<>>)).v)
          IN SetItem(out, "Items", JList(GroupItems(doc)))

(* the regex fallback over json.dumps(response) *)
Fallback(out, resp) ==
  LET txt == JsonDumps(resp)
      m1 == SearchMoney(txt)
      out1 == IF ~Truthy(Get(out, "Total", JNull)) /\ m1.found
              THEN SetItem(out, "Total", JStr(m1.text)) ELSE out
      m2 == SearchDate(txt)
  IN IF ~Truthy(Get(out1, "Date", JNull)) /\ m2.found
     THEN SetItem(out1, "Date", JStr(m2.text)) ELSE out1

WellFormed(resp) ==
  /\ IsDict(resp)
  /\ LET docs == Get(resp, "ExpenseDocuments", JList(<<>>))
     IN IsList(docs) /\ (Truthy(docs) => IsDict(docs.v[1]))

parse_textract_expense(resp) ==
  IF ~WellFormed(resp) THEN Raise
  ELSE Ok(Fallback(PrimaryPath(resp), resp))


-----------------------------------------------------------------------------
(* Inputs of the extraction: expense-analysis responses *)

MaxFields == 2

TextObj(s) == JObj(<<<<"Text", JStr(s)>>>>)
Field(type, value, label) ==
  JObj(<<<<"Type", TextObj(type)>>, <<"LabelDetection", TextObj(label)>>,
         <<"ValueDetection", TextObj(value)>>>>)
LineField(type, value) == JObj(<<<<"Type", TextObj(type)>>, <<"ValueDetection", TextObj(value)>>>>)
Document(fields, groups) ==
  JObj(<<<<"SummaryFields", JList(fields)>>, <<"LineItemGroups", JList(groups)>>>>)
Response(docs) == JObj(<<<<"ExpenseDocuments", JList(docs)>>>>)

TypeTexts ==
  {<<"VENDOR", "_", "TOTAL">>, <<"MERCHANT", "_", "NAME">>, <<"SUB", "TOTAL">>, <<" ", "AMOUNT">>,
   <<"AMOUNT", "_", "PAID">>, <<"INVOICE", "_", "DATE">>}
(* <<value text, label text>> of a summary field *)
ValueLabelTexts ==
  {<<<<" ">>, <<>>>>, <<<<" ">>, <<"1", "/", "2", "/", "2", "4">>>>, <<<<"$", "5", " ">>, <<"Lbl">>>>}

SummaryFieldSet == {Field(t, vl[1], vl[2]) : t \in TypeTexts, vl \in ValueLabelTexts}

GroupA ==
  JObj(<<<<"LineItems", JList(<<
     JObj(<<<<"LineItemExpenseFields",
              JList(<<LineField(<<"ITEM">>, <<"Coffee">>), LineField(<<>>, <<"$", "3">>),
                      LineField(<<"QTY">>, <<" ">>)>>)>>>>),
     JObj(<<<<"LineItemExpenseFields", JList(<<LineField(<<"ITEM">>, <<>>)>>)>>>>)>>)>>>>)
GroupB ==
  JObj(<<<<"LineItems", JList(<<
     JObj(<<<<"LineItemExpenseFields", JList(<<LineField(<<"ITEM">>, <<"Tea">>)>>)>>>>)>>)>>>>)

SecondDocument ==
  Document(<<Field(<<"VENDOR">>, <<"Other">>, <<>>), Field(<<"TOTAL">>, <<"$", "7">>, <<>>),
             Field(<<"DATE">>, <<"3", "-", "4", "-", "2", "0", "2", "5">>, <<>>)>>, <<GroupB>>)

ResponseSet ==
  {Response(<<>>)} \cup
  {Response(<<Document(f, g)>> \o rest) :
     f \in SeqsUpTo(SummaryFieldSet, MaxFields), g \in {<<>>, <<GroupA>>},
     rest \in {<<>>, <<SecondDocument>>}}

ExtractStep ==
  /\ ~tsummary.done
  /\ tsummary' = Done(parse_textract_expense(response))
  /\ UNCHANGED <<response, hvars, nvars, pvars>>

InitExtract ==
  /\ response \in ResponseSet
  /\ tsummary = NotRun
  /\ HandlersIdle /\ NormIdle /\ ParseIdle

NextExtract == ExtractStep

SpecExtract == InitExtract /\ [][NextExtract]_vars


-----------------------------------------------------------------------------
(* receipt_bedrock_processor.py: call_bedrock_messages, parse_bedrock_output *)

Separator == "===JSON==="

(* atoms that stand for one member of a JSON object in the model's text *)
AmountMember == "\"amount\":5"
NullAmountMember == "\"amount\":null"
VendorMember == "\"vendor\":\"Cafe\""
MemberAtoms == {AmountMember, NullAmountMember, VendorMember}
MemberPair(a) ==
  CASE a = AmountMember -> <<"amount", JNum(5, 0)>>
    [] a = NullAmountMember -> <<"amount", JNull>>
    [] a = VendorMember -> <<"vendor", JStr(<<"Cafe">>)>>

RECURSIVE MembersToDict(_, _)
MembersToDict(d, ms) ==
  IF ms = <<>> THEN d
  ELSE MembersToDict(SetItem(d, MemberPair(Head(ms))[1], MemberPair(Head(ms))[2]), Tail(ms))

(* the provider envelopes the model knows, for a generated text *)
TextItem(text) == JObj(<<<<"type", JStr(<<"text">>)>>, <<"text", text>>>>)
NewSchema(text) ==
  JObj(<<<<"output", JObj(<<<<"content", JList(<<TextItem(JNull), TextItem(text)>>)>>>>)>>>>)
OldSchema(text) ==
  JObj(<<<<"outputs", JList(<<JObj(<<<<"type", JStr(<<"other">>)>>>>),
          JObj(<<<<"type", JStr(<<"message">>)>>, <<"content", JList(<<TextItem(text)>>)>>>>)>>)>>>>)
MessagesSchema(text) ==
  JObj(<<<<"type", JStr(<<"message">>)>>, <<"role", JStr(<<"assistant">>)>>,
         <<"content", JList(<<TextItem(text)>>)>>>>)
CompletionSchema(text) == JObj(<<<<"completion", text>>>>)
NullOutput == JObj(<<<<"output", JNull>>>>)
NumberInOutputs == JObj(<<<<"outputs", JList(<<JNum(7, 0)>>)>>>>)
StringInContent(text) ==
  JObj(<<<<"outputs", JList(<<JObj(<<<<"type", JStr(<<"message">>)>>,
                                     <<"content", JList(<<text>>)>>>>)>>)>>>>)
NullContent == JObj(<<<<"outputs", JList(<<JObj(<<<<"type", JStr(<<"message">>)>>,
                                                  <<"content", JNull>>>>)>>)>>>>)

EnvelopeTexts ==
  {EmptyStr,
   JStr(<<"Bought">>),
   JStr(<<"Bought", "\n", Separator, "\n", "{", VendorMember, ",", AmountMember, "}">>),
   JStr(<<"Bought", "\n", Separator, "\n", "null">>),
   JStr(<<"Bought", Separator, "{", NullAmountMember>>)}

Envelopes ==
  {NullOutput, NumberInOutputs, NullContent, EmptyDict} \cup
  UNION {{NewSchema(x), OldSchema(x), MessagesSchema(x), CompletionSchema(x), StringInContent(x)} :
           x \in EnvelopeTexts}

EnvelopeDumps == {<<JsonDumps(e), e>> : e \in Envelopes}

(* json.loads(s): the JSON texts of the model are null, a run of digits, [], an object of *)
(* member atoms, and the serialisations of the envelopes                                  *)
JsonLoads(s) ==
  LET t == Strip(s)
      inner == Remove(t, Whitespace)
      n == Len(inner)
      middle == SubSeq(inner, 2, n - 1)
  IN IF \E d \in EnvelopeDumps : d[1] = t
     THEN Ok((CHOOSE d \in EnvelopeDumps : d[1] = t)[2])
     ELSE IF t = <<"null">> THEN Ok(JNull)
     ELSE IF t # <<>> /\ AllDigits(t, 1, Len(t)) THEN Ok(JNum(DigitsVal(t), 0))
     ELSE IF inner = <<"[", "]">> THEN Ok(JList(<<>>))
     ELSE IF /\ n >= 2 /\ inner[1] = "{" /\ inner[n] = "}"
             /\ (Len(middle) = 0 \/ Len(middle) % 2 = 1)
             /\ \A i \in 1..Len(middle) :
                  IF i % 2 = 1 THEN middle[i] \in MemberAtoms ELSE middle[i] = ","
     THEN Ok(MembersToDict(EmptyDict, SelectSeq(middle, LAMBDA a : a # ",")))
     ELSE Raise

IsTextItem(c) == Get(c, "type", JNull) = JStr(<<"text">>) /\ Truthy(Get(c, "text", JNull))

(* 1) the first dict item of type "text" with a truthy text *)
RECURSIVE FirstText(_)
FirstText(items) ==
  IF items = <<>> THEN JNull
  ELSE IF IsDict(Head(items)) /\ IsTextItem(Head(items)) THEN Get(Head(items), "text", JNull)
  ELSE FirstText(Tail(items))

(* what "for c in x" iterates over, for the values that can be iterated *)
Iterable(x) == x.t \in {"list", "str", "obj"}
Iterate(x) ==
  CASE x.t = "list" -> x.v
    [] x.t = "str" -> [i \in 1..Len(x.v) |-> JStr(<<x.v[i]>>)]
    [] x.t = "obj" -> [i \in 1..Len(x.v) |-> JStr(<<x.v[i][1]>>)]

(* 2) the inner loop: c.get raises when c is not a dict *)
RECURSIVE ContentLoop(_)
ContentLoop(items) ==
  IF items = <<>> THEN Ok(JNull)
  ELSE IF ~IsDict(Head(items)) THEN Raise
  ELSE IF IsTextItem(Head(items)) THEN Ok(Get(Head(items), "text", JNull))
  ELSE ContentLoop(Tail(items))

(* 2) the outer loop: out.get raises when out is not a dict *)
RECURSIVE OutputsLoop(_)
OutputsLoop(outs) ==
  IF outs = <<>> THEN Ok(JNull)
  ELSE LET out == Head(outs)
       IN IF ~IsDict(out) THEN Raise
          ELSE IF Get(out, "type", JNull) = JStr(<<"message">>)
          THEN LET content == Get(out, "content", JList(<<>>))
               IN IF ~Iterable(content) THEN Raise
                  ELSE LET r == ContentLoop(Iterate(content))
                       IN IF r.raised \/ Truthy(r.val) THEN r ELSE OutputsLoop(Tail(outs))
          ELSE OutputsLoop(Tail(outs))

(* 3) find_text *)
RECURSIVE find_text(_)
RECURSIVE FindInItems(_)
RECURSIVE FindInMembers(_)
find_text(obj) ==
  IF IsDict(obj) THEN FindInMembers(obj.v)
  ELSE IF IsList(obj) THEN FindInItems(obj.v)
  ELSE JNull
FindInMembers(ms) ==
  IF ms = <<>> THEN JNull
  ELSE IF Head(ms)[1] = "text" /\ IsStr(Head(ms)[2]) THEN Head(ms)[2]
  ELSE LET res == find_text(Head(ms)[2])
       IN IF Truthy(res) THEN res ELSE FindInMembers(Tail(ms))
FindInItems(items) ==
  IF items = <<>> THEN JNull
  ELSE LET res == find_text(Head(items))
       IN IF Truthy(res) THEN res ELSE FindInItems(Tail(items))

(* the text extraction of call_bedrock_messages, from the decoded string raw *)
call_bedrock_messages(raw) ==
  LET decoded == JsonLoads(raw)
      parsed == decoded.val
      output1 == Get(parsed, "output", EmptyDict)
      output == Get(output1, "content", JList(<<>>))
      text1 == IF IsList(output) THEN FirstText(output.v) ELSE JNull
      outputs == Get(parsed, "outputs", JList(<<>>))
      step2 == IF Truthy(text1) THEN Ok(text1)
               ELSE IF IsList(outputs) THEN OutputsLoop(outputs.v) ELSE Ok(JNull)
      text3 == IF Truthy(step2.val) THEN step2.val ELSE find_text(parsed)
  IN IF decoded.raised THEN Ok(JStr(raw))
     ELSE IF ~IsDict(parsed) THEN Raise
     ELSE IF ~IsDict(output1) THEN Raise
     ELSE IF step2.raised THEN Raise
     ELSE IF Truthy(text3) THEN Ok(text3) ELSE Ok(JStr(raw))

(* re.search(r'\{.*\}', s, re.DOTALL): the first "{" up to the last "}" *)
SearchBraces(s) ==
  LET opens == {i \in 1..Len(s) : s[i] = "{"}
      closes == {j \in 1..Len(s) : s[j] = "}" /\ opens # {} /\ j > SetMin(opens)}
  IN IF closes = {} THEN NoMatch ELSE Match(SubSeq(s, SetMin(opens), SetMax(closes)))

(* the recovery of parsed_json from json_part and the whole text *)
RecoverJson(json_part, s) ==
  IF json_part = <<>> THEN EmptyDict
  ELSE LET strict == JsonLoads(json_part)
           m == SearchBraces(s)
           second == JsonLoads(m.text)
       IN IF ~strict.raised THEN strict.val
          ELSE IF m.found /\ ~second.raised THEN second.val
          ELSE EmptyDict

Parsed(line, fields) == [summary_line |-> line, fields |-> fields]

RestAfterFirst(raw) ==
  IF ~Truthy(raw) THEN Parsed(<<>>, EmptyDict)
  ELSE LET s == PyStr(raw)
           parts == Split(s, Separator)
           json_part == IF Len(parts) > 1 THEN Strip(SubSeq(s, Len(parts[1]) + 2, Len(s))) ELSE <<>>
       IN Parsed(Strip(parts[1]), RecoverJson(json_part, s))

parse_bedrock_output(raw) ==
  IF ~Truthy(raw) THEN Parsed(<<>>, EmptyDict)
  ELSE LET s == PyStr(raw)
           parts == Split(s, Separator)
           json_part == IF Len(parts) > 1 THEN Strip(parts[2]) ELSE <<>>
       IN Parsed(Strip(parts[1]), RecoverJson(json_part, s))

-----------------------------------------------------------------------------
(* Inputs of the model output parser: response bodies *)

MaxTextLen == 5

TextAtoms == {"Bought", " ", Separator, "{", "}", AmountMember, "null"}

PlainTexts == SeqsUpTo(TextAtoms, MaxTextLen)

Bodies == PlainTexts \cup {d[1] : d \in EnvelopeDumps}

CallBedrock ==
  /\ ~ptext.done
  /\ ptext' = Done(call_bedrock_messages(body))
  /\ UNCHANGED <<body, pres, hvars, nvars, tvars>>

ParseOutput ==
  /\ ptext.done /\ ~ptext.raised /\ ~pres.done
  /\ pres' = [done |-> TRUE] @@ parse_bedrock_output(ptext.val)
  /\ UNCHANGED <<body, ptext, hvars, nvars, tvars>>

InitParse ==
  /\ body \in Bodies
  /\ ptext = NotRun
  /\ pres = NotParsed
  /\ HandlersIdle /\ NormIdle /\ ExtractIdle

NextParse == CallBedrock \/ ParseOutput

SpecParse == InitParse /\ [][NextParse]_vars


-----------------------------------------------------------------------------
(* Object keys, the blob store and the trigger events *)

OUTPUT_PREFIX == <<"textract-output/">>
TEXTRACT_PREFIX == <<"textract-output/">>
BEDROCK_PREFIX == <<"bedrock-output/">>

DirAtoms == {"textract-output/", "bedrock-output/", "in/"}

(* os.path.basename(key) *)
Basename(key) ==
  LET dirs == {i \in 1..Len(key) : key[i] \in DirAtoms}
  IN IF dirs = {} THEN key ELSE SubSeq(key, SetMax(dirs) + 1, Len(key))

(* Stage 1 guard: the output prefix, then the suffix of key.lower() *)
S1SkipSuffixOnly(key) ==
  ~(\/ EndsWith(Lower(key), <<".jpg">>) \/ EndsWith(Lower(key), <<".jpeg">>)
    \/ EndsWith(Lower(key), <<".png">>) \/ EndsWith(Lower(key), <<".pdf">>))

S1Skip(key) ==
  \/ StartsWith(key, OUTPUT_PREFIX)
  \/ ~(\/ EndsWith(Lower(key), <<".jpg">>) \/ EndsWith(Lower(key), <<".jpeg">>)
       \/ EndsWith(Lower(key), <<".png">>) \/ EndsWith(Lower(key), <<".pdf">>))

(* Stage 2 guard *)
S2Skip(key) == ~StartsWith(key, TEXTRACT_PREFIX) \/ ~EndsWith(key, <<".summary.json">>)

(* Stage 1 output keys, from key = os.path.basename(key) *)
TextractKey(name) == OUTPUT_PREFIX \o name \o <<".textract.json">>
SummaryKey(name) == OUTPUT_PREFIX \o name \o <<".summary.json">>

(* Stage 2 output keys *)
Base(key) == Remove(Basename(key), {".summary.json"})
SummaryTxtIntoInput(key) == TEXTRACT_PREFIX \o Base(key) \o <<".summary.json">>
SummaryTxtKey(key) == BEDROCK_PREFIX \o Base(key) \o <<".summary.txt">>
BedrockJsonKey(key) == BEDROCK_PREFIX \o Base(key) \o <<".bedrock.json">>
ErrorKey(key) == BEDROCK_PREFIX \o Base(key) \o <<".error.txt">>

(* an object body: json.dumps(val) when json, else the text val *)
JsonBody(x) == [json |-> TRUE, val |-> x]
TextBody(s) == [json |-> FALSE, val |-> JStr(s)]

(* s3.put_object: the object at key k is replaced *)
Put(st, k, b) == [x \in DOMAIN st \cup {k} |-> IF x = k THEN b ELSE st[x]]

(* every object written triggers both stages; queue is the bag of undelivered events *)
Notify(q, k) ==
  q (+) SetToBag({[stage |-> 1, valid |-> TRUE, key |-> k], [stage |-> 2, valid |-> TRUE, key |-> k]})

(* an outcome of the environment: success or failure, and the value returned *)
Outcome(ok, x) == [ok |-> ok, val |-> x]
Plain == {Outcome(TRUE, JNull), Outcome(FALSE, JNull)}

NewInvocation(ev) ==
  [stage |-> ev.stage, event |-> ev, pc |-> "start", key |-> <<>>,
   response |-> JNull, summary |-> JNull, summary_line |-> <<>>, summary_json |-> JNull,
   exc |-> "", propagated |-> "", marker |-> "none", ops |-> <<>>, script |-> <<>>,
   result |-> "", status |-> 0]

Op(kind, k, ok) == [op |-> kind, key |-> k, ok |-> ok]
Written(i) == {i.ops[n].key : n \in {m \in 1..Len(i.ops) : i.ops[m].op = "put" /\ i.ops[m].ok}}
Finished(i) == i.pc = "done"

(* a redelivered event is processed against the same outcomes as its first delivery *)
Replays(p, o) ==
  run = 2 => /\ Len(inv[p].script) < Len(snap.script)
             /\ o = snap.script[Len(inv[p].script) + 1]

Return(i, result) == [i EXCEPT !.pc = "done", !.result = result, !.status = 200]
Propagate(i, exc) ==
  [i EXCEPT !.pc = "done", !.result = "raised", !.exc = exc, !.propagated = exc]
Did(i, kind, k, o) == [i EXCEPT !.ops = Append(@, Op(kind, k, o.ok)), !.script = Append(@, o)]

MaxCalls == 3


-----------------------------------------------------------------------------
(* Inputs of the handlers *)

MaxKeyLen == 3

KeyAtoms ==
  {"textract-output/", "bedrock-output/", "in/", "foo", ".jpg", ".JPG", ".summary.json",
   ".SUMMARY.JSON"}

Keys == SeqsUpTo(KeyAtoms, MaxKeyLen)

Events ==
  {[stage |-> st, valid |-> TRUE, key |-> k] : st \in {1, 2}, k \in Keys} \cup
  {[stage |-> st, valid |-> FALSE, key |-> <<>>] : st \in {1, 2}}

ReceiptResponse ==
  Response(<<Document(<<Field(<<"VENDOR">>, <<"Acme">>, <<>>), Field(<<"TOTAL">>, <<"$", "5">>, <<>>),
                        Field(<<"TOTAL">>, <<" ">>, <<>>)>>, <<GroupA>>)>>)
MalformedResponse == JObj(<<<<"ExpenseDocuments", JList(<<JNull>>)>>>>)
HandlerResponses == {Response(<<>>), ReceiptResponse, MalformedResponse}

BoughtText == <<"Bought", "\n", Separator, "\n", "{", VendorMember, ",", AmountMember, "}">>
CoffeeText == <<"Coffee", Separator, "{", NullAmountMember, "}">>
HandlerBodies ==
  {BoughtText, CoffeeText, JsonDumps(MessagesSchema(JStr(BoughtText))), <<"null">>,
   <<"Bought", Separator, "null">>}

SummaryDoc ==
  JObj(<<<<"Vendor", JStr(<<"Acme">>)>>, <<"Total", JStr(<<"$", "5">>)>>, <<"Date", JNull>>,
         <<"Items", JList(<<>>)>>, <<"Source", JStr(<<"foo", ".jpg">>)>>>>)

ImageBody == TextBody(<<"image">>)
InputBodies(stage) == IF stage = 1 THEN {ImageBody} ELSE {JsonBody(SummaryDoc), JsonBody(JNull), ImageBody}

-----------------------------------------------------------------------------
(* receipt_textract_processor.py: lambda_handler *)

S1StartDeduplicated(p) ==
  /\ inv[p].stage = 1 /\ inv[p].pc = "start"
  /\ LET i == inv[p]
     IN inv' = [inv EXCEPT ![p] =
          IF ~i.event.valid THEN Propagate(i, "event")
          ELSE IF S1Skip(i.event.key) \/ SummaryKey(Basename(i.event.key)) \in DOMAIN store
          THEN Return([i EXCEPT !.key = i.event.key], "skipped")
          ELSE [i EXCEPT !.key = i.event.key, !.pc = "download"]]
  /\ UNCHANGED <<store, queue, calls, run, snap, nvars, pvars, tvars>>

S1Start(p) ==
  /\ inv[p].stage = 1 /\ inv[p].pc = "start"
  /\ LET i == inv[p]
     IN inv' = [inv EXCEPT ![p] =
          IF ~i.event.valid THEN Propagate(i, "event")
          ELSE IF S1Skip(i.event.key) THEN Return([i EXCEPT !.key = i.event.key], "skipped")
          ELSE [i EXCEPT !.key = i.event.key, !.pc = "download"]]
  /\ UNCHANGED <<store, queue, calls, run, snap, nvars, pvars, tvars>>

S1Download(p) ==
  /\ inv[p].stage = 1 /\ inv[p].pc = "download"
  /\ \E o \in Plain :
       /\ Replays(p, o)
       /\ o.ok => inv[p].key \in DOMAIN store
       /\ LET i == Did(inv[p], "download", inv[p].key, o)
          IN inv' = [inv EXCEPT ![p] =
               IF o.ok THEN [i EXCEPT !.pc = "analyze"] ELSE Propagate(i, "download")]
  /\ UNCHANGED <<store, queue, calls, run, snap, nvars, pvars, tvars>>

S1Analyze(p) ==
  /\ inv[p].stage = 1 /\ inv[p].pc = "analyze"
  /\ calls.textract < MaxCalls
  /\ \E o \in {Outcome(FALSE, JNull)} \cup {Outcome(TRUE, r) : r \in HandlerResponses} :
       /\ Replays(p, o)
       /\ LET i == Did(inv[p], "analyze", <<>>, o)
          IN inv' = [inv EXCEPT ![p] =
               IF o.ok
               THEN [i EXCEPT !.response = o.val, !.key = Basename(i.key), !.pc = "put_raw"]
               ELSE Propagate(i, "textract")]
  /\ calls' = [calls EXCEPT !.textract = @ + 1]
  /\ UNCHANGED <<store, queue, run, snap, nvars, pvars, tvars>>

(* "parse & save summary": the summary, or the all-empty one when parsing raises *)
Summarize(resp, name) ==
  LET r == parse_textract_expense(resp)
  IN IF r.raised
     THEN JObj(<<<<"Source", JStr(name)>>, <<"Vendor", JNull>>, <<"Total", JNull>>,
                 <<"Date", JNull>>, <<"Items", JList(<<>>)>>>>)
     ELSE SetItem(r.val, "Source", JStr(name))

S1PutRaw(p) ==
  /\ inv[p].stage = 1 /\ inv[p].pc = "put_raw"
  /\ \E o \in Plain :
       /\ Replays(p, o)
       /\ LET i == Did(inv[p], "put", TextractKey(inv[p].key), o)
          IN IF o.ok
             THEN /\ store' = Put(store, TextractKey(i.key), JsonBody(i.response))
                  /\ queue' = Notify(queue, TextractKey(i.key))
                  /\ inv' = [inv EXCEPT ![p] =
                       [i EXCEPT !.summary = Summarize(i.response, i.key), !.pc = "put_summary"]]
             ELSE /\ inv' = [inv EXCEPT ![p] = Propagate(i, "persist")]
                  /\ UNCHANGED <<store, queue>>
  /\ UNCHANGED <<calls, run, snap, nvars, pvars, tvars>>

S1PutSummary(p) ==
  /\ inv[p].stage = 1 /\ inv[p].pc = "put_summary"
  /\ \E o \in Plain :
       /\ Replays(p, o)
       /\ LET i == Did(inv[p], "put", SummaryKey(inv[p].key), o)
          IN IF o.ok
             THEN /\ store' = Put(store, SummaryKey(i.key), JsonBody(i.summary))
                  /\ queue' = Notify(queue, SummaryKey(i.key))
                  /\ inv' = [inv EXCEPT ![p] = Return(i, "success")]
             ELSE /\ inv' = [inv EXCEPT ![p] = Propagate(i, "persist")]
                  /\ UNCHANGED <<store, queue>>
  /\ UNCHANGED <<calls, run, snap, nvars, pvars, tvars>>

-----------------------------------------------------------------------------
(* receipt_bedrock_processor.py: lambda_handler *)

S2Start(p) ==
  /\ inv[p].stage = 2 /\ inv[p].pc = "start"
  /\ LET i == inv[p]
     IN inv' = [inv EXCEPT ![p] =
          IF ~i.event.valid THEN Propagate(i, "event")
          ELSE IF S2Skip(i.event.key) THEN Return([i EXCEPT !.key = i.event.key], "skipped")
          ELSE [i EXCEPT !.key = i.event.key, !.pc = "load"]]
  /\ UNCHANGED <<store, queue, calls, run, snap, nvars, pvars, tvars>>

(* json.loads of the object read *)
LoadSummary(b) == IF b.json THEN Ok(b.val) ELSE JsonLoads(b.val.v)

S2Load(p) ==
  /\ inv[p].stage = 2 /\ inv[p].pc = "load"
  /\ \E o \in Plain :
       /\ Replays(p, o)
       /\ o.ok => inv[p].key \in DOMAIN store
       /\ LET i == Did(inv[p], "get", inv[p].key, o)
          IN inv' = [inv EXCEPT ![p] =
               IF ~o.ok THEN Propagate(i, "load")
               ELSE LET summary_data == LoadSummary(store[i.key])
                    IN IF summary_data.raised THEN Propagate(i, "load")
                       ELSE IF ~IsDict(summary_data.val) THEN Propagate(i, "prompt")
                       ELSE [i EXCEPT !.summary = summary_data.val, !.pc = "invoke"]]
  /\ UNCHANGED <<store, queue, calls, run, snap, nvars, pvars, tvars>>

S2Invoke(p) ==
  /\ inv[p].stage = 2 /\ inv[p].pc = "invoke"
  /\ calls.bedrock < MaxCalls
  /\ \E o \in {Outcome(FALSE, JNull)} \cup {Outcome(TRUE, JStr(b)) : b \in HandlerBodies} :
       /\ Replays(p, o)
       /\ LET i == Did(inv[p], "invoke", <<>>, o)
              raw_out == call_bedrock_messages(o.val.v)
              parsed == parse_bedrock_output(raw_out.val)
              normal == Normalize(parsed.fields, i.summary)
          IN inv' = [inv EXCEPT ![p] =
               IF ~o.ok \/ raw_out.raised THEN [i EXCEPT !.exc = "bedrock", !.pc = "marker"]
               ELSE IF normal.raised THEN Propagate(i, "normalize")
               ELSE [i EXCEPT !.response = raw_out.val, !.summary_line = parsed.summary_line,
                              !.summary_json = normal.val, !.pc = "put_txt"]]
  /\ calls' = [calls EXCEPT !.bedrock = @ + 1]
  /\ UNCHANGED <<store, queue, run, snap, nvars, pvars, tvars>>

S2PutSummaryTxt(p) ==
  /\ inv[p].stage = 2 /\ inv[p].pc = "put_txt"
  /\ \E o \in Plain :
       /\ Replays(p, o)
       /\ LET i == Did(inv[p], "put", SummaryTxtKey(inv[p].key), o)
          IN IF o.ok
             THEN /\ store' = Put(store, SummaryTxtKey(i.key), TextBody(i.summary_line))
                  /\ queue' = Notify(queue, SummaryTxtKey(i.key))
                  /\ inv' = [inv EXCEPT ![p] = [i EXCEPT !.pc = "put_json"]]
             ELSE /\ inv' = [inv EXCEPT ![p] = [i EXCEPT !.exc = "persist", !.pc = "marker"]]
                  /\ UNCHANGED <<store, queue>>
  /\ UNCHANGED <<calls, run, snap, nvars, pvars, tvars>>

S2PutBedrockJsonIfAbsent(p) ==
  /\ inv[p].stage = 2 /\ inv[p].pc = "put_json"
  /\ \E o \in Plain :
       /\ Replays(p, o)
       /\ LET i == Did(inv[p], "put", BedrockJsonKey(inv[p].key), o)
          IN IF o.ok
             THEN /\ store' = IF BedrockJsonKey(i.key) \in DOMAIN store THEN store
                              ELSE Put(store, BedrockJsonKey(i.key), JsonBody(i.summary_json))
                  /\ queue' = Notify(queue, BedrockJsonKey(i.key))
                  /\ inv' = [inv EXCEPT ![p] = Return(i, "success")]
             ELSE /\ inv' = [inv EXCEPT ![p] = [i EXCEPT !.exc = "persist", !.pc = "marker"]]
                  /\ UNCHANGED <<store, queue>>
  /\ UNCHANGED <<calls, run, snap, nvars, pvars, tvars>>

S2PutBedrockJson(p) ==
  /\ inv[p].stage = 2 /\ inv[p].pc = "put_json"
  /\ \E o \in Plain :
       /\ Replays(p, o)
       /\ LET i == Did(inv[p], "put", BedrockJsonKey(inv[p].key), o)
          IN IF o.ok
             THEN /\ store' = Put(store, BedrockJsonKey(i.key), JsonBody(i.summary_json))
                  /\ queue' = Notify(queue, BedrockJsonKey(i.key))
                  /\ inv' = [inv EXCEPT ![p] = Return(i, "success")]
             ELSE /\ inv' = [inv EXCEPT ![p] = [i EXCEPT !.exc = "persist", !.pc = "marker"]]
                  /\ UNCHANGED <<store, queue>>
  /\ UNCHANGED <<calls, run, snap, nvars, pvars, tvars>>

MarkerBody(exc) ==
  IF exc = "bedrock" THEN TextBody(<<"bedrock_call_failed">>) ELSE TextBody(<<"ERROR saving outputs">>)

MarkerThenSuccess(p) ==
  /\ inv[p].stage = 2 /\ inv[p].pc = "marker"
  /\ \E o \in Plain :
       /\ Replays(p, o)
       /\ LET i == Did(inv[p], "put", ErrorKey(inv[p].key), o)
          IN IF o.ok
             THEN /\ store' = Put(store, ErrorKey(i.key), MarkerBody(i.exc))
                  /\ queue' = Notify(queue, ErrorKey(i.key))
                  /\ inv' = [inv EXCEPT ![p] = Return([i EXCEPT !.marker = "ok"], "success")]
             ELSE /\ inv' = [inv EXCEPT ![p] = Return([i EXCEPT !.marker = "failed"], "success")]
                  /\ UNCHANGED <<store, queue>>
  /\ UNCHANGED <<calls, run, snap, nvars, pvars, tvars>>

S2Marker(p) ==
  /\ inv[p].stage = 2 /\ inv[p].pc = "marker"
  /\ \E o \in Plain :
       /\ Replays(p, o)
       /\ LET i == Did(inv[p], "put", ErrorKey(inv[p].key), o)
          IN IF o.ok
             THEN /\ store' = Put(store, ErrorKey(i.key), MarkerBody(i.exc))
                  /\ queue' = Notify(queue, ErrorKey(i.key))
                  /\ inv' = [inv EXCEPT ![p] = Propagate([i EXCEPT !.marker = "ok"], i.exc)]
             ELSE /\ inv' = [inv EXCEPT ![p] = Propagate([i EXCEPT !.marker = "failed"], i.exc)]
                  /\ UNCHANGED <<store, queue>>
  /\ UNCHANGED <<calls, run, snap, nvars, pvars, tvars>>

-----------------------------------------------------------------------------
(* One trigger event, delivered and then redelivered *)

NoSnap == [store |-> <<>>, ops |-> <<>>, script |-> <<>>,
           calls |-> [textract |-> 0, bedrock |-> 0], result |-> ""]

Redeliver ==
  /\ run = 1 /\ Finished(inv[1])
  /\ snap' = [store |-> store, ops |-> inv[1].ops, script |-> inv[1].script,
              calls |-> calls, result |-> inv[1].result]
  /\ inv' = <<NewInvocation(inv[1].event)>>
  /\ run' = 2
  /\ UNCHANGED <<store, queue, calls, nvars, pvars, tvars>>

Init ==
  /\ \E ev \in Events :
       /\ inv = <<NewInvocation(ev)>>
       /\ store \in {<<>>} \cup {Put(<<>>, ev.key, b) : b \in InputBodies(ev.stage)}
  /\ queue = EmptyBag
  /\ calls = [textract |-> 0, bedrock |-> 0]
  /\ run = 1
  /\ snap = NoSnap
  /\ NormIdle /\ ParseIdle /\ ExtractIdle

Procs == DOMAIN inv

Next ==
  \/ \E p \in Procs : S1Start(p)
  \/ \E p \in Procs : S1Download(p)
  \/ \E p \in Procs : S1Analyze(p)
  \/ \E p \in Procs : S1PutRaw(p)
  \/ \E p \in Procs : S1PutSummary(p)
  \/ \E p \in Procs : S2Start(p)
  \/ \E p \in Procs : S2Load(p)
  \/ \E p \in Procs : S2Invoke(p)
  \/ \E p \in Procs : S2PutSummaryTxt(p)
  \/ \E p \in Procs : S2PutBedrockJson(p)
  \/ \E p \in Procs : S2Marker(p)
  \/ Redeliver

Spec == Init /\ [][Next]_vars


-----------------------------------------------------------------------------
(* One uploaded object; every object written triggers both stages *)

IdleSlot == [NewInvocation([stage |-> 0, valid |-> TRUE, key |-> <<>>]) EXCEPT !.pc = "idle"]
Free(i) == i.pc \in {"idle", "done"}

Dispatch(p) ==
  /\ Free(inv[p])
  /\ \E ev \in BagToSet(queue) :
       /\ inv' = [inv EXCEPT ![p] = NewInvocation(ev)]
       /\ queue' = queue (-) SetToBag({ev})
  /\ UNCHANGED <<store, calls, run, snap, nvars, pvars, tvars>>

MaxUploadLen == 1

InitPipeline ==
  /\ \E k \in SeqsUpTo(KeyAtoms, MaxUploadLen), b \in {ImageBody, JsonBody(SummaryDoc)} :
       /\ store = Put(<<>>, k, b)
       /\ queue = Notify(EmptyBag, k)
  /\ inv = <<IdleSlot>>
  /\ calls = [textract |-> 0, bedrock |-> 0]
  /\ run = 1
  /\ snap = NoSnap
  /\ NormIdle /\ ParseIdle /\ ExtractIdle

NextPipeline ==
  \/ \E p \in Procs : Dispatch(p)
  \/ \E p \in Procs : S1Start(p)
  \/ \E p \in Procs : S1Download(p)
  \/ \E p \in Procs : S1Analyze(p)
  \/ \E p \in Procs : S1PutRaw(p)
  \/ \E p \in Procs : S1PutSummary(p)
  \/ \E p \in Procs : S2Start(p)
  \/ \E p \in Procs : S2Load(p)
  \/ \E p \in Procs : S2Invoke(p)
  \/ \E p \in Procs : S2PutSummaryTxt(p)
  \/ \E p \in Procs : S2PutBedrockJson(p)
  \/ \E p \in Procs : S2Marker(p)

(* every delivered event is processed and every started invocation runs to its end *)
PipelineSpec == InitPipeline /\ [][NextPipeline]_vars /\ WF_vars(NextPipeline)

-----------------------------------------------------------------------------
(* Two concurrent model-stage invocations for the same key *)

InitRace ==
  /\ \E k \in {x \in Keys : ~S2Skip(x)} :
       /\ store = Put(<<>>, k, JsonBody(SummaryDoc))
       /\ inv = <<NewInvocation([stage |-> 2, valid |-> TRUE, key |-> k]),
                  NewInvocation([stage |-> 2, valid |-> TRUE, key |-> k])>>
  /\ queue = EmptyBag
  /\ calls = [textract |-> 0, bedrock |-> 0]
  /\ run = 1
  /\ snap = NoSnap
  /\ NormIdle /\ ParseIdle /\ ExtractIdle

NextRace ==
  \/ \E p \in Procs : S2Start(p)
  \/ \E p \in Procs : S2Load(p)
  \/ \E p \in Procs : S2Invoke(p)
  \/ \E p \in Procs : S2PutSummaryTxt(p)
  \/ \E p \in Procs : S2PutBedrockJson(p)
  \/ \E p \in Procs : S2Marker(p)

RaceSpec == InitRace /\ [][NextRace]_vars


-----------------------------------------------------------------------------
(* Properties *)

Zero == [textract |-> 0, bedrock |-> 0]
LastOp(i) == i.ops[Len(i.ops)]
PutsOf(ops) == {ops[n].key : n \in {m \in 1..Len(ops) : ops[m].op = "put" /\ ops[m].ok}}
ServiceOrWriteFailures == {"textract", "bedrock", "persist"}

(* C1 as stated: in both stages a failed service call or a failed artifact write is *)
(* followed by an attempted marker write before the failure is propagated, and a    *)
(* failed marker write does not replace the original failure.                       *)
C1_MarkerInBothStages ==
  \A p \in Procs :
    (Finished(inv[p]) /\ inv[p].exc \in ServiceOrWriteFailures)
      => /\ inv[p].result = "raised"
         /\ inv[p].propagated = inv[p].exc
         /\ inv[p].marker # "none"

(* C2 as stated: a model-stage invocation that fails in the model-call/parse span or *)
(* in the persist span writes <base>.error.txt, writes neither <base>.summary.txt    *)
(* nor <base>.bedrock.json, and re-raises.                                           *)
C2_ErrorInsteadOfOutputs ==
  \A p \in Procs :
    (Finished(inv[p]) /\ inv[p].stage = 2 /\ inv[p].exc \in {"bedrock", "persist"})
      => /\ inv[p].result = "raised"
         /\ ErrorKey(inv[p].event.key) \in Written(inv[p])
         /\ SummaryTxtKey(inv[p].event.key) \notin Written(inv[p])
         /\ BedrockJsonKey(inv[p].event.key) \notin Written(inv[p])

(* C2 amended: such an invocation re-raises the failure after attempting the marker  *)
(* write, which is written unless that write fails too; <base>.bedrock.json is not   *)
(* written; <base>.summary.txt is not written when the failure is in the             *)
(* model-call/parse span, and is written exactly when the failing write is the one   *)
(* of <base>.bedrock.json.                                                           *)
C2_ErrorAfterPartialOutputs ==
  \A p \in Procs :
    (Finished(inv[p]) /\ inv[p].stage = 2 /\ inv[p].exc \in {"bedrock", "persist"})
      => LET i == inv[p]
             failedPuts == {i.ops[n].key : n \in {m \in 1..Len(i.ops) :
                                                   i.ops[m].op = "put" /\ ~i.ops[m].ok}}
         IN /\ i.result = "raised" /\ i.propagated = i.exc
            /\ i.marker \in {"ok", "failed"}
            /\ (ErrorKey(i.event.key) \in Written(i)) = (i.marker = "ok")
            /\ BedrockJsonKey(i.event.key) \notin Written(i)
            /\ i.exc = "bedrock" => SummaryTxtKey(i.event.key) \notin Written(i)
            /\ i.exc = "persist" =>
                 (SummaryTxtKey(i.event.key) \in Written(i))
                   = (BedrockJsonKey(i.event.key) \in failedPuts)

C2_Witness ==
  \E p \in Procs :
    /\ Finished(inv[p]) /\ inv[p].stage = 2 /\ inv[p].exc = "persist"
    /\ SummaryTxtKey(inv[p].event.key) \in Written(inv[p])
    /\ ErrorKey(inv[p].event.key) \in Written(inv[p])
    /\ inv[p].result = "raised"

(* the guard of each stage, on the atoms of the key *)
Rejected(stage, key) ==
  LET first == IF key = <<>> THEN "" ELSE key[1]
      last == IF key = <<>> THEN "" ELSE key[Len(key)]
  IN IF stage = 1
     THEN first = "textract-output/" \/ LowerAtom(last) \notin {".jpg", ".jpeg", ".png", ".pdf"}
     ELSE first # "textract-output/" \/ last # ".summary.json"

(* C3: when the prefix/suffix guard of the stage rejects the key, the invocation     *)
(* returns status 200 "skipped" and performs no blob-store read or write and no      *)
(* external-service call.                                                            *)
C3_SkipHasNoSideEffects ==
  \A p \in Procs :
    (inv[p].pc # "start" /\ inv[p].event.valid /\ Rejected(inv[p].stage, inv[p].event.key))
      => /\ Finished(inv[p]) /\ inv[p].result = "skipped" /\ inv[p].status = 200
         /\ inv[p].ops = <<>>
         /\ run = 1 => (calls = Zero /\ queue = EmptyBag /\ DOMAIN store \subseteq {inv[p].event.key})

C3_Witness ==
  \E p \in Procs :
    /\ Finished(inv[p]) /\ inv[p].result = "skipped" /\ inv[p].stage = 1
    /\ inv[p].event.key = <<"textract-output/", "foo", ".jpg">>
    /\ inv[p].event.key \in DOMAIN store

(* C4: the NormalizedRecord has amount = AmountParser(fields.amount) when            *)
(* fields.amount is present and truthy and AmountParser(summary Total) otherwise,    *)
(* currency = fields.currency when present and truthy and CurrencyDetector(Total)    *)
(* otherwise (rupee/INR/Rs before dollar before euro); other keys are unchanged.     *)
C4_Normalization ==
  nrec.done =>
    LET total == Get(ntotal, "Total", JNull)
        text == IF total = JNull THEN <<>> ELSE total.v
        hasAmount == HasKey(nfields, "amount") /\ Truthy(Get(nfields, "amount", JNull))
        hasCurrency == HasKey(nfields, "currency") /\ Truthy(Get(nfields, "currency", JNull))
        detected ==
          IF \E n \in 1..Len(text) : text[n] \in {Rupee, "INR", "Rs"} THEN <<"INR">>
          ELSE IF \E n \in 1..Len(text) : text[n] = "$" THEN <<"USD">>
          ELSE IF \E n \in 1..Len(text) : text[n] = Euro THEN <<"EUR">>
          ELSE <<>>
        rec == nrec.val
    IN /\ ~nrec.raised
       /\ HasKey(rec, "amount") /\ HasKey(rec, "currency")
       /\ Get(rec, "amount", JNull) =
            (IF hasAmount THEN parse_amount(Get(nfields, "amount", JNull)) ELSE parse_amount(total))
       /\ Get(rec, "currency", JNull) =
            (IF hasCurrency THEN Get(nfields, "currency", JNull) ELSE JStr(detected))
       /\ \A n \in 1..Len(nfields.v) :
            nfields.v[n][1] \notin {"amount", "currency"} => rec.v[n] = nfields.v[n]
       /\ {rec.v[n][1] : n \in 1..Len(rec.v)} =
            {nfields.v[n][1] : n \in 1..Len(nfields.v)} \cup {"amount", "currency"}

C4_Witness ==
  /\ nrec.done
  /\ Get(nfields, "amount", EmptyStr) = JNull
  /\ ~HasKey(nfields, "currency")
  /\ Get(ntotal, "Total", JNull) = JStr(<<"$", "1", "1">>)
  /\ Get(nrec.val, "amount", JNull) = JNum(11, 0)
  /\ Get(nrec.val, "currency", JNull) = JStr(<<"USD">>)

(* C5 as stated: for every model raw output the envelope text extraction followed by *)
(* parse_bedrock_output returns without raising, and fields is a mapping.            *)
C5_ParserNeverRaises ==
  /\ ptext.done => ~ptext.raised
  /\ pres.done => IsDict(pres.fields)

SeparatorAt(s) == {n \in 1..Len(s) : s[n] = Separator}

(* C6 as stated: summary_line is the text before the first separator, trimmed, and   *)
(* the JSON candidate is everything after that first separator, trimmed, also when   *)
(* the separator occurs more than once; without a separator summary_line is the      *)
(* whole text and fields is the empty mapping.                                       *)
C6_EverythingAfterFirst ==
  (pres.done /\ Truthy(ptext.val)) =>
    LET s == ptext.val.v
        at == SeparatorAt(s)
    IN IF at = {}
       THEN pres.summary_line = s /\ pres.fields = EmptyDict
       ELSE /\ pres.summary_line = Strip(SubSeq(s, 1, SetMin(at) - 1))
            /\ pres.fields = RecoverJson(Strip(SubSeq(s, SetMin(at) + 1, Len(s))), s)

(* C6 amended: summary_line is the text before the first separator, trimmed; the     *)
(* JSON candidate is the text between the first and the second separator (up to the  *)
(* end of the text when the separator occurs once), trimmed; without a separator     *)
(* summary_line is the whole text, trimmed, and fields is the empty mapping.         *)
C6_BetweenFirstAndSecond ==
  (pres.done /\ Truthy(ptext.val)) =>
    LET s == ptext.val.v
        at == SeparatorAt(s)
        first == SetMin(at)
        later == {n \in at : n > first}
        stop == IF later = {} THEN Len(s) + 1 ELSE SetMin(later)
    IN IF at = {}
       THEN pres.summary_line = Strip(s) /\ pres.fields = EmptyDict
       ELSE /\ pres.summary_line = Strip(SubSeq(s, 1, first - 1))
            /\ pres.fields = RecoverJson(Strip(SubSeq(s, first + 1, stop - 1)), s)

C6_Witness ==
  /\ pres.done
  /\ ptext.val = JStr(<<"Bought", Separator, "null", Separator, "{">>)
  /\ pres.summary_line = <<"Bought">>
  /\ pres.fields = JNull


TypeText(field) == Lower(Strip(TextOf(field, "Type")))
Category(field) ==
  LET t == TypeText(field)
      has(w) == \E n \in 1..Len(t) : t[n] = w
  IN IF has("vendor") \/ has("merchant") THEN "Vendor"
     ELSE IF has("total") \/ t = <<"amount">> THEN "Total"
     ELSE IF has("date") THEN "Date"
     ELSE "none"
Taken(field) ==
  IF Strip(TextOf(field, "ValueDetection")) # <<>>
  THEN Strip(TextOf(field, "ValueDetection"))
  ELSE Strip(TextOf(field, "LabelDetection"))

FirstDocumentFields == Get(response.v[1][2].v[1], "SummaryFields", JList(<<>>)).v
LastOf(c) == SetMax({n \in 1..Len(FirstDocumentFields) : Category(FirstDocumentFields[n]) = c})
Classified(c) == \E n \in 1..Len(FirstDocumentFields) : Category(FirstDocumentFields[n]) = c
FirstDocumentOnly == parse_textract_expense(Response(<<response.v[1][2].v[1]>>)).val

(* C8 as stated: Vendor, Total and Date each equal the value taken from the last     *)
(* field of the first document classified into that category, also when that value   *)
(* is empty; documents after index 0 never affect Vendor or Items.                   *)
C8_LastFieldWins ==
  (tsummary.done /\ response.v[1][2].v # <<>>) =>
    /\ ~tsummary.raised
    /\ \A c \in {"Vendor", "Total", "Date"} :
         Classified(c) => Get(tsummary.val, c, JNull) = JStr(Taken(FirstDocumentFields[LastOf(c)]))
    /\ Get(tsummary.val, "Vendor", JNull) = Get(FirstDocumentOnly, "Vendor", JNull)
    /\ Get(tsummary.val, "Items", JNull) = Get(FirstDocumentOnly, "Items", JNull)

(* C8 amended: Vendor equals the value taken from the last vendor field, also when   *)
(* it is empty; Total and Date equal the value taken from the last field of their    *)
(* category when that value is not empty, and when it is empty they are the first    *)
(* match of the fallback pattern in the serialised response, or empty without a      *)
(* match; documents after index 0 never affect Vendor or Items.                      *)
C8_LastFieldWinsUnlessEmpty ==
  (tsummary.done /\ response.v[1][2].v # <<>>) =>
    LET blob == JsonDumps(response)
        scan(c) == IF c = "Total" THEN SearchMoney(blob) ELSE SearchDate(blob)
    IN /\ ~tsummary.raised
       /\ Classified("Vendor") =>
            Get(tsummary.val, "Vendor", JNull) = JStr(Taken(FirstDocumentFields[LastOf("Vendor")]))
       /\ \A c \in {"Total", "Date"} :
            Classified(c) =>
              LET v == Taken(FirstDocumentFields[LastOf(c)])
              IN Get(tsummary.val, c, JNull) = JStr(IF v # <<>> THEN v ELSE scan(c).text)
       /\ Get(tsummary.val, "Vendor", JNull) = Get(FirstDocumentOnly, "Vendor", JNull)
       /\ Get(tsummary.val, "Items", JNull) = Get(FirstDocumentOnly, "Items", JNull)

C8_Witness ==
  /\ tsummary.done
  /\ Len(response.v[1][2].v) = 2
  /\ Len(FirstDocumentFields) = 2
  /\ Category(FirstDocumentFields[1]) = "Total" /\ Category(FirstDocumentFields[2]) = "Total"
  /\ Taken(FirstDocumentFields[1]) = <<"1", "/", "2", "/", "2", "4">>
  /\ Taken(FirstDocumentFields[2]) = <<"$", "5">>
  /\ Get(tsummary.val, "Total", JNull) = JStr(<<"$", "5">>)

Quiescent == queue = EmptyBag /\ \A p \in Procs : Free(inv[p])

ArtifactsRejected ==
  \A p \in Procs : \A k \in Written(inv[p]) :
    Rejected(1, k) /\ (inv[p].stage = 2 => Rejected(2, k))

(* C9: after one upload, with every written object triggering both stages, every     *)
(* artifact of either stage is rejected by Stage 1's guard and every artifact of     *)
(* Stage 2 by Stage 2's guard, at most one Textract call and one Bedrock call        *)
(* happen, and the system eventually quiesces.                                       *)
C9_ChainTerminates ==
  /\ [](ArtifactsRejected /\ calls.textract <= 1 /\ calls.bedrock <= 1)
  /\ <>[]Quiescent

C9_Witness ==
  /\ Quiescent
  /\ calls = [textract |-> 1, bedrock |-> 1]
  /\ \E k \in DOMAIN store : StartsWith(k, BEDROCK_PREFIX) /\ EndsWith(k, <<".bedrock.json">>)

BothSucceeded ==
  /\ Len(inv) = 2
  /\ \A p \in Procs : Finished(inv[p]) /\ inv[p].stage = 2 /\ inv[p].result = "success"
  /\ inv[1].event = inv[2].event
  /\ inv[1].response # inv[2].response

(* C10 as stated: when two concurrent model-stage invocations for the same key get   *)
(* different model outputs and both succeed, the final summary.txt and bedrock.json  *)
(* were both written by the same invocation.                                         *)
C10_PairFromOneInvocation ==
  BothSucceeded =>
    \E p \in Procs :
      /\ store[SummaryTxtKey(inv[p].event.key)] = TextBody(inv[p].summary_line)
      /\ store[BedrockJsonKey(inv[p].event.key)] = JsonBody(inv[p].summary_json)

(* C10 amended: the last writer wins for each object on its own: every successful    *)
(* write of summary.txt or bedrock.json leaves that object holding what the writing  *)
(* invocation wrote, whatever an earlier invocation stored there; the two final      *)
(* objects may come from different invocations.                                      *)
C10_LastWriterPerObject ==
  [][\A p \in Procs :
       (Len(inv'[p].ops) = Len(inv[p].ops) + 1 /\ LastOp(inv'[p]).op = "put" /\ LastOp(inv'[p]).ok)
         => LET k == LastOp(inv'[p]).key
            IN /\ k \in DOMAIN store'
               /\ k = SummaryTxtKey(inv[p].key) => store'[k] = TextBody(inv[p].summary_line)
               /\ k = BedrockJsonKey(inv[p].key) => store'[k] = JsonBody(inv[p].summary_json)]_vars

C10_Witness ==
  /\ BothSucceeded
  /\ store[SummaryTxtKey(inv[1].event.key)] = TextBody(inv[1].summary_line)
  /\ store[BedrockJsonKey(inv[1].event.key)] = JsonBody(inv[2].summary_json)
  /\ inv[1].summary_line # inv[2].summary_line
  /\ inv[1].summary_json # inv[2].summary_json


====
